---- MODULE Spec2Model ----
(***************************************************************************)
(* Verification model of the georeferencing application (GeoSnap):         *)
(*   - src/services/geminiService.ts : analyzeMapImage, calculateWorldFile *)
(*   - src/App.tsx, src/unnamed/part_001, src/unnamed/part_002 : three     *)
(*     builds of the App component (state, handlers, exports).             *)
(*                                                                         *)
(* Numbers.  The program computes in IEEE doubles.  The model computes in  *)
(* exact rational arithmetic: a number is a record [n |-> Int, d |-> Nat]  *)
(* in lowest terms with d > 0.  Control points carry integer coordinates   *)
(* (pixels, and geographic values in a fixed unit), so every sum and       *)
(* product of the fit is an exact integer and only the final division by   *)
(* the determinant produces a fraction.                                    *)
(***************************************************************************)
EXTENDS Integers, Sequences, FiniteSets, TLC

----------------------------------------------------------------------------
(* Bounds of the model.                                                    *)

\* longest control-point list handed to calculateWorldFile
MaxPoints == 4
\* pixel coordinates of the enumerated control points: pixelX in 0..MaxPix,
\* pixelY in 0..MaxPixY
MaxPix == 2
MaxPixY == 1
\* geographic coordinates of the enumerated control points: 0..MaxGeo
MaxGeo == 1
\* coefficients of the enumerated transformations: -MaxCoef..MaxCoef
MaxCoef == 1
\* raster width and height range over 0..MaxDim
MaxDim == 2
\* digits after the decimal point of the enumerated world-file values
WfMaxFrac == 2
\* digits after the decimal point that NumberToString prints at most
PrintDigits == 6
\* rasters a user can load
MaxImages == 2
\* control points in the longest detection response
MaxDetect == 3
\* image loads, detection requests, preview timers and archive
\* generations that can be outstanding at once
MaxLoads == 1
MaxProcs == 2
MaxTimers == 1
MaxBundles == 1
\* handlers a user triggers in one session
MaxClicks == 4

----------------------------------------------------------------------------
(* State.                                                                  *)

\* the App component: useState / useRef values, requests in flight, and
\* the module-level table registry (PRJ_DEFINITIONS), and the ghost
\* variables lastEvent, fitInvoked (which handler or callback ran last, and
\* whether it called calculateWorldFile), archiveError and lastResponse
\* (the error the archiving library rejected with, and the parsed response
\* the detection service resolved with, in the last callback) and clicks
\* (handlers the user has triggered)
VARIABLES build, status, result, error, selectedTransform, viewMode,
          tableState, imgRef, loads, procs, timers, mapLayers, bundles,
          lastDownload, lastEvent, fitInvoked, clicks, registry,
          archiveError, lastResponse

\* calculateWorldFile as a function: arguments and return value
VARIABLES fitPoints, fitType, fitOut

\* the extent computation as a function: arguments, build, value
VARIABLES extParams, extW, extH, extBuild, extOut

\* the world file writer as a function: argument and text
VARIABLES wfParams, wfText

appVars == <<build, status, result, error, selectedTransform, viewMode,
             tableState, imgRef, loads, procs, timers, mapLayers, bundles,
             lastDownload, lastEvent, fitInvoked, clicks, registry,
             archiveError, lastResponse>>
fitVars == <<fitPoints, fitType, fitOut>>
extVars == <<extParams, extW, extH, extBuild, extOut>>
wfVars == <<wfParams, wfText>>

vars == <<appVars, fitVars, extVars, wfVars>>

----------------------------------------------------------------------------
(* Exact rational arithmetic standing for the program's doubles.           *)

Abs(x) == IF x < 0 THEN -x ELSE x

RECURSIVE Gcd(_, _)
Gcd(a, b) == IF b = 0 THEN a ELSE Gcd(b, a % b)

\* the rational p/q (q # 0) in lowest terms with positive denominator
Rat(p, q) ==
  LET g == Gcd(Abs(p), Abs(q))
      s == IF q < 0 THEN -1 ELSE 1
  IN [n |-> (s * p) \div g, d |-> (s * q) \div g]

FromInt(i) == [n |-> i, d |-> 1]
Zero == FromInt(0)

RAdd(x, y) == Rat(x.n * y.d + y.n * x.d, x.d * y.d)
RNeg(x)    == [n |-> -x.n, d |-> x.d]
RSub(x, y) == RAdd(x, RNeg(y))
RMul(x, y) == Rat(x.n * y.n, x.d * y.d)
RLeq(x, y) == x.n * y.d <= y.n * x.d
RMin(x, y) == IF RLeq(x, y) THEN x ELSE y
RMax(x, y) == IF RLeq(x, y) THEN y ELSE x

----------------------------------------------------------------------------
(* types.ts (src/unnamed/part_000)                                         *)

TransformationType == {"AFFINE", "HELMERT", "PROJECTIVE"}
AppStatus == {"IDLE", "LOADING", "PROCESSING", "SUCCESS", "ERROR"}

\* JavaScript null / undefined, where the other values are records
Null == [null |-> TRUE]

ControlPoint(id, px, py, lat, lng) ==
  [id |-> id, pixelX |-> px, pixelY |-> py, lat |-> lat, lng |-> lng]

TransformationParams(a, b, c, d, e, f) ==
  [A |-> a, B |-> b, C |-> c, D |-> d, E |-> e, F |-> f]

----------------------------------------------------------------------------
(* calculateWorldFile (src/services/geminiService.ts:80-126)               *)

RECURSIVE SumTo(_, _, _)
\* sum of f[1..k]: the accumulation loop of solveAffineParams
SumTo(f, k, acc) == IF k = 0 THEN acc ELSE SumTo(f, k - 1, acc + f[k])

Sum(f) == SumTo(f, Len(f), 0)

Prod(f, g) == [i \in 1..Len(f) |-> f[i] * g[i]]

\* the eight sums of the loop at lines 91-95
NormalSums(obs, px, py) ==
  [n   |-> Len(obs),
   sX  |-> Sum(px),            sY  |-> Sum(py),
   sXX |-> Sum(Prod(px, px)),  sYY |-> Sum(Prod(py, py)),
   sXY |-> Sum(Prod(px, py)),
   sOX |-> Sum(Prod(obs, px)), sOY |-> Sum(Prod(obs, py)),
   sO  |-> Sum(obs)]

\* a sign slip in the last cofactor of the determinant
DetSignSlip(s) ==
    s.sXX * (s.sYY * s.n - s.sY * s.sY)
  - s.sXY * (s.sXY * s.n - s.sX * s.sY)
  - s.sX  * (s.sXY * s.sY - s.sYY * s.sX)

\* a determinant whose last cofactor reads the observation sum
DetOfObservations(s) ==
    s.sXX * (s.sYY * s.n - s.sY * s.sY)
  - s.sXY * (s.sXY * s.n - s.sX * s.sY)
  + s.sO  * (s.sXY * s.sY - s.sYY * s.sX)

\* line 96
Det(s) ==
    s.sXX * (s.sYY * s.n - s.sY * s.sY)
  - s.sXY * (s.sXY * s.n - s.sX * s.sY)
  + s.sX  * (s.sXY * s.sY - s.sYY * s.sX)

\* lines 98-100: the three Cramer numerators
NumA(s) ==
    s.sOX * (s.sYY * s.n - s.sY * s.sY)
  - s.sXY * (s.sOY * s.n - s.sO * s.sY)
  + s.sX  * (s.sOY * s.sY - s.sYY * s.sO)

\* the second Cramer numerator with the observation column put in the
\* wrong place of its middle cofactor
NumBWrongColumn(s) ==
    s.sXX * (s.sOY * s.n - s.sO * s.sY)
  - s.sOX * (s.sXY * s.n - s.sX * s.sY)
  + s.sX  * (s.sXY * s.sY - s.sOY * s.sX)

NumB(s) ==
    s.sXX * (s.sOY * s.n - s.sO * s.sY)
  - s.sOX * (s.sXY * s.n - s.sX * s.sY)
  + s.sX  * (s.sXY * s.sO - s.sOY * s.sX)

NumC(s) ==
    s.sXX * (s.sYY * s.sO - s.sY * s.sOY)
  - s.sXY * (s.sXY * s.sO - s.sX * s.sOY)
  + s.sOX * (s.sXY * s.sY - s.sYY * s.sX)

\* line 97: Math.abs(det) < 1e-12.  The determinant of integer pixel
\* coordinates is an integer, and for an integer |det| < 1e-12 iff |det| < 1.
NearSingular(det) == Abs(det) < 1

\* lines 89-102
solveAffineParams(obs, px, py) ==
  LET s   == NormalSums(obs, px, py)
      det == Det(s)
  IN IF NearSingular(det)
       THEN <<Zero, Zero, Zero>>
       ELSE <<Rat(NumA(s), det), Rat(NumB(s), det), Rat(NumC(s), det)>>

(* Helmert derivation, lines 112-123.  scale and angle are irrational in   *)
(* general; the model computes them exactly in the two cases where every   *)
(* intermediate value is rational and leaves a symbolic value otherwise.   *)

\* a real number the rational model has no exact value for: coefficient
\* `name' of the Helmert derivation of the affine coefficients <<A, B, D, E>>
Irr(name, A, B, D, E) == [irr |-> name, of |-> <<A, B, D, E>>]

Sign(x) == IF x.n > 0 THEN 1 ELSE IF x.n < 0 THEN -1 ELSE 0
RAbs(x) == [n |-> Abs(x.n), d |-> x.d]

\* Math.atan2(D, A) in quarter turns (units of pi/2), for a vector with a
\* zero component; a zero produced by the fit is +0
Atan2Quarter(y, x) ==
  IF Sign(y) = 0 THEN (IF Sign(x) >= 0 THEN 0 ELSE 2)
  ELSE IF Sign(y) > 0 THEN 1 ELSE -1

\* Math.atan2(-B, E) in quarter turns, for a vector with a zero component:
\* the negation of a +0 B is -0, and atan2(-0, E) is -0 for E >= 0 and -pi
\* for E < 0
Atan2NegQuarter(B, E) ==
  IF Sign(B) = 0 THEN (IF Sign(E) >= 0 THEN 0 ELSE -2)
  ELSE IF Sign(B) < 0 THEN 1 ELSE -1

\* cos and sin of k quarter turns
CosQuarter(k) == IF k % 4 = 0 THEN 1 ELSE IF k % 4 = 2 THEN -1 ELSE 0
SinQuarter(k) == IF k % 4 = 1 THEN 1 ELSE IF k % 4 = 3 THEN -1 ELSE 0

AxisAligned(x, y) == Sign(x) = 0 \/ Sign(y) = 0

Half(x) == RMul(x, Rat(1, 2))

\* a derivation that rebuilds the translation from the averaged rotation
\* instead of passing C and F through
HelmertDeriveMovingOrigin(A, B, C, D, E, F) ==
  IF AxisAligned(A, D) /\ AxisAligned(B, E)
       /\ (Atan2Quarter(D, A) + Atan2NegQuarter(B, E)) % 2 = 0
    THEN
      LET scale == Half(RAdd(RAdd(RAbs(A), RAbs(D)), RAdd(RAbs(B), RAbs(E))))
          angle == (Atan2Quarter(D, A) + Atan2NegQuarter(B, E)) \div 2
          cos   == FromInt(CosQuarter(angle))
          sin   == FromInt(SinQuarter(angle))
      IN TransformationParams(RMul(scale, cos), RMul(RNeg(scale), sin),
                              RSub(RMul(C, cos), RMul(F, sin)),
                              RMul(scale, sin), RMul(scale, cos),
                              RAdd(RMul(C, sin), RMul(F, cos)))
  ELSE IF A = E /\ D = RNeg(B) /\ Sign(D) # 0
    THEN TransformationParams(A, B, C, D, E, F)
  ELSE
      TransformationParams(Irr("A", A, B, D, E), Irr("B", A, B, D, E), C,
                           Irr("D", A, B, D, E), Irr("E", A, B, D, E), F)

HelmertDerive(A, B, C, D, E, F) ==
  IF AxisAligned(A, D) /\ AxisAligned(B, E)
       /\ (Atan2Quarter(D, A) + Atan2NegQuarter(B, E)) % 2 = 0
    THEN \* sqrt(A*A + D*D) = |A| + |D| when one of them is zero
      LET scale == Half(RAdd(RAdd(RAbs(A), RAbs(D)), RAdd(RAbs(B), RAbs(E))))
          angle == (Atan2Quarter(D, A) + Atan2NegQuarter(B, E)) \div 2
          cos   == FromInt(CosQuarter(angle))
          sin   == FromInt(SinQuarter(angle))
      IN TransformationParams(RMul(scale, cos), RMul(RNeg(scale), sin), C,
                              RMul(scale, sin), RMul(scale, cos), F)
  ELSE IF A = E /\ D = RNeg(B) /\ Sign(D) # 0
    THEN \* both rows give the same scale s and the same angle t (off the
         \* branch cut), and s*cos(t) = A, s*sin(t) = D
      TransformationParams(A, B, C, D, E, F)
  ELSE
      TransformationParams(Irr("A", A, B, D, E), Irr("B", A, B, D, E), C,
                           Irr("D", A, B, D, E), Irr("E", A, B, D, E), F)

Column(points, field) == [i \in 1..Len(points) |-> points[i][field]]

\* an off-by-one guard that lets a single point through
InsufficientPointsOffByOne(points) == Len(points) < 1

\* line 81: if (points.length < 2) return null
InsufficientPoints(points) == Len(points) < 2

\* a fit whose longitude row also sees the latitudes
calculateWorldFileCoupledRows(points, type) ==
  IF InsufficientPoints(points) THEN Null
  ELSE
    LET px   == Column(points, "pixelX")
        py   == Column(points, "pixelY")
        lngs == Column(points, "lng")
        lats == Column(points, "lat")
        abc  == solveAffineParams([i \in 1..Len(points) |-> lngs[i] + lats[i]],
                                  px, py)
        def  == solveAffineParams(lats, px, py)
    IN IF type = "HELMERT"
         THEN HelmertDerive(abc[1], abc[2], abc[3], def[1], def[2], def[3])
         ELSE TransformationParams(abc[1], abc[2], abc[3],
                                   def[1], def[2], def[3])

\* a fit that treats PROJECTIVE like HELMERT
calculateWorldFileProjectiveDerived(points, type) ==
  IF InsufficientPoints(points) THEN Null
  ELSE
    LET px   == Column(points, "pixelX")
        py   == Column(points, "pixelY")
        lngs == Column(points, "lng")
        lats == Column(points, "lat")
        abc  == solveAffineParams(lngs, px, py)
        def  == solveAffineParams(lats, px, py)
    IN IF type \in {"HELMERT", "PROJECTIVE"}
         THEN HelmertDerive(abc[1], abc[2], abc[3], def[1], def[2], def[3])
         ELSE TransformationParams(abc[1], abc[2], abc[3],
                                   def[1], def[2], def[3])

\* lines 80-126
calculateWorldFile(points, type) ==
  IF InsufficientPoints(points) THEN Null
  ELSE
    LET px   == Column(points, "pixelX")
        py   == Column(points, "pixelY")
        lngs == Column(points, "lng")
        lats == Column(points, "lat")
        abc  == solveAffineParams(lngs, px, py)
        def  == solveAffineParams(lats, px, py)
    IN IF type = "HELMERT"
         THEN HelmertDerive(abc[1], abc[2], abc[3], def[1], def[2], def[3])
         ELSE TransformationParams(abc[1], abc[2], abc[3],
                                   def[1], def[2], def[3])

----------------------------------------------------------------------------
(* Specification of the fit as a function: the inputs are drawn from the   *)
(* bounded sets, one action applies calculateWorldFile.                    *)

\* not yet called
Pending == [pending |-> TRUE]

\* the fit is not exercised
FitIdle == fitPoints = << >> /\ fitType = "AFFINE" /\ fitOut = Pending

\* the control points the fit specification enumerates
FitPoint ==
  { ControlPoint("GCP", x, y, la, lo) :
      x \in 0..MaxPix, y \in 0..MaxPixY, la \in 0..MaxGeo, lo \in 0..MaxGeo }

\* position of a point in the enumeration order of FitPoint
PointKey(p) ==
  ((p.pixelX * (MaxPixY + 1) + p.pixelY) * (MaxGeo + 1) + p.lng)
     * (MaxGeo + 1) + p.lat

\* the worked example of the specification, in units of 100 pixels and of
\* tenths of a degree: (0,0,-7.0,34.0), (100,0,-6.9,34.0), (0,100,-7.0,33.9)
ExamplePoints ==
  << ControlPoint("GCP", 0, 0, 340, -70),
     ControlPoint("GCP", 1, 0, 340, -69),
     ControlPoint("GCP", 0, 1, 339, -70) >>

InitFit ==
  /\ fitPoints \in {<< >>, ExamplePoints}
  /\ fitType = "AFFINE"
  /\ fitOut = Pending

\* the caller extends the list it is going to pass.  The fit reads the
\* list only through the sums of lines 91-95, so the lists are enumerated
\* in non-decreasing enumeration order of their points.
AppendPoint ==
  /\ fitOut = Pending
  /\ Len(fitPoints) < MaxPoints
  /\ \E p \in FitPoint :
       /\ Len(fitPoints) > 0 =>
            PointKey(fitPoints[Len(fitPoints)]) <= PointKey(p)
       /\ fitPoints' = Append(fitPoints, p)
  /\ UNCHANGED <<fitType, fitOut, appVars, extVars, wfVars>>

CallCalculateWorldFile ==
  /\ fitOut = Pending
  /\ \E type \in TransformationType :
       /\ fitType' = type
       /\ fitOut' = calculateWorldFile(fitPoints, type)
  /\ UNCHANGED <<fitPoints, appVars, extVars, wfVars>>

NextFit == AppendPoint \/ CallCalculateWorldFile

----------------------------------------------------------------------------
(* Extent of the raster, computed by updateMapPreview before reprojection. *)
(* The repository holds three builds of the App component; App.tsx differs *)
(* from the other two in this computation.                                 *)

Build == {"App.tsx", "part_001", "part_002"}

Extent(xmin, ymin, xmax, ymax) ==
  [xmin |-> xmin, ymin |-> ymin, xmax |-> xmax, ymax |-> ymax]

\* src/App.tsx:139-145: corner (0,0) and corner (w,h) only
extent6261_AppTsx(t, w, h) ==
  LET xmin == t.C
      ymax == t.F
      xmax == RAdd(RAdd(t.C, RMul(t.A, FromInt(w))), RMul(t.B, FromInt(h)))
      ymin == RAdd(RAdd(t.F, RMul(t.D, FromInt(w))), RMul(t.E, FromInt(h)))
  IN Extent(xmin, RMin(ymin, ymax), xmax, RMax(ymin, ymax))

\* Math.min(...xs) and Math.max(...xs) of a four-element array
Min4(xs) == RMin(RMin(xs[1], xs[2]), RMin(xs[3], xs[4]))
Max4(xs) == RMax(RMax(xs[1], xs[2]), RMax(xs[3], xs[4]))

\* src/unnamed/part_002:212-215 (part_001:137-140): the four mapped corners
Corners(t, w, h) ==
  LET W == FromInt(w)
      H == FromInt(h)
  IN << <<t.C, t.F>>,
        <<RAdd(RMul(t.A, W), t.C), RAdd(RMul(t.D, W), t.F)>>,
        <<RAdd(RAdd(RMul(t.A, W), RMul(t.B, H)), t.C),
          RAdd(RAdd(RMul(t.D, W), RMul(t.E, H)), t.F)>>,
        <<RAdd(RMul(t.B, H), t.C), RAdd(RMul(t.E, H), t.F)>> >>

\* src/unnamed/part_002:217-225 (part_001:142-150)
extent6261_Corners(t, w, h) ==
  LET c == Corners(t, w, h)
      xCoords == <<c[1][1], c[2][1], c[3][1], c[4][1]>>
      yCoords == <<c[1][2], c[2][2], c[3][2], c[4][2]>>
  IN Extent(Min4(xCoords), Min4(yCoords), Max4(xCoords), Max4(yCoords))

\* the extent updateMapPreview computes in the given build
extent6261(b, t, w, h) ==
  IF b = "App.tsx" THEN extent6261_AppTsx(t, w, h)
                       ELSE extent6261_Corners(t, w, h)

(* Specification of the extent as a function of the parameters and the     *)
(* raster size.                                                            *)

Coef == { FromInt(i) : i \in -MaxCoef..MaxCoef }

ExtIdle ==
  /\ extParams = TransformationParams(Zero, Zero, Zero, Zero, Zero, Zero)
  /\ extW = 0 /\ extH = 0
  /\ extBuild = "part_002"
  /\ extOut = Pending

InitExtent ==
  /\ extParams \in [{"A", "B", "C", "D", "E", "F"} -> Coef]
  /\ extW \in 0..MaxDim /\ extH \in 0..MaxDim
  /\ extBuild = "part_002"
  /\ extOut = Pending

CallExtent ==
  /\ extOut = Pending
  /\ \E b \in Build :
       /\ extBuild' = b
       /\ extOut' = extent6261(b, extParams, extW, extH)
  /\ UNCHANGED <<extParams, extW, extH, appVars, fitVars, wfVars>>

NextExtent == CallExtent

----------------------------------------------------------------------------
(* World file text, downloadGisBundle (src/unnamed/part_002:343-344,       *)
(* src/App.tsx:231-232).  Text is a sequence of one-character strings.     *)

DigitChars == <<"0", "1", "2", "3", "4", "5", "6", "7", "8", "9">>

RECURSIVE NatToString(_)
\* decimal digits of a natural number, most significant first
NatToString(n) ==
  IF n < 10 THEN <<DigitChars[n + 1]>>
  ELSE NatToString(n \div 10) \o <<DigitChars[(n % 10) + 1]>>

RECURSIVE FracToStringNoPad(_, _, _)
\* fraction digits that lose the zeros right after the decimal point
FracToStringNoPad(r, d, k) ==
  IF r = 0 \/ k = 0 THEN << >>
  ELSE (IF (r * 10) \div d = 0 THEN << >>
        ELSE <<DigitChars[((r * 10) \div d) + 1]>>)
         \o FracToStringNoPad((r * 10) % d, d, k - 1)

RECURSIVE FracToString(_, _, _)
\* digits after the decimal point of r/d (r < d), at most k of them and
\* none once the remainder is zero (no trailing zeros)
FracToString(r, d, k) ==
  IF r = 0 \/ k = 0 THEN << >>
  ELSE <<DigitChars[((r * 10) \div d) + 1]>>
         \o FracToString((r * 10) % d, d, k - 1)

\* Number.prototype.toString of a finite double in plain decimal notation
\* (the template literals `${A}`): sign, integer part, and the fraction
\* digits when there are any.  A double prints the shortest decimal that
\* reads back as itself; here a value prints its exact digits, up to
\* PrintDigits after the point.
NumberToString(x) ==
  LET m    == Abs(x.n)
      frac == FracToString(m % x.d, x.d, PrintDigits)
  IN (IF x.n < 0 THEN <<"-">> ELSE << >>)
       \o NatToString(m \div x.d)
       \o (IF frac = << >> THEN << >> ELSE <<".">> \o frac)

\* the world file with its lines in alphabetical order of the coefficients
WorldFileTextAlphabetical(t) ==
  NumberToString(t.A) \o <<"\n">> \o NumberToString(t.B) \o <<"\n">>
    \o NumberToString(t.C) \o <<"\n">> \o NumberToString(t.D) \o <<"\n">>
    \o NumberToString(t.E) \o <<"\n">> \o NumberToString(t.F)

\* `${A}\n${D}\n${B}\n${E}\n${C}\n${F}`
WorldFileText(t) ==
  NumberToString(t.A) \o <<"\n">> \o NumberToString(t.D) \o <<"\n">>
    \o NumberToString(t.B) \o <<"\n">> \o NumberToString(t.E) \o <<"\n">>
    \o NumberToString(t.C) \o <<"\n">> \o NumberToString(t.F)

(* Specification of the world file writer as a function of the parameters. *)

\* no text written yet
NoText == <<"">>

\* the parameter values the writer is exercised on: decimals with up to
\* WfMaxFrac digits after the point
WfValue ==
  { Rat(m, d) : m \in {-12, 0, 7}, d \in { 10 ^ k : k \in 0..WfMaxFrac } }

WfIdle ==
  /\ wfParams = TransformationParams(Zero, Zero, Zero, Zero, Zero, Zero)
  /\ wfText = NoText

InitWorldFile ==
  /\ wfParams \in [{"A", "B", "C", "D", "E", "F"} -> WfValue]
  /\ wfText = NoText

WriteWorldFile ==
  /\ wfText = NoText
  /\ wfText' = WorldFileText(wfParams)
  /\ UNCHANGED <<wfParams, appVars, fitVars, extVars>>

NextWorldFile == WriteWorldFile

----------------------------------------------------------------------------
(* analyzeMapImage, ingestion of the detection response                    *)
(* (src/services/geminiService.ts:63-74).                                  *)

\* `GCP-${index + 1}`
GcpId(index) == <<"GCP-", index>>

\* { id: `GCP-${index + 1}`, ...cp }: an id carried by the response wins
IngestPointKeepingId(cp, index) ==
  [f \in (DOMAIN cp) \cup {"id"} |->
     IF f \in DOMAIN cp THEN cp[f] ELSE GcpId(index)]

\* { ...cp, id: `GCP-${index + 1}` }
IngestPoint(cp, index) ==
  [f \in (DOMAIN cp) \cup {"id"} |-> IF f = "id" THEN GcpId(index) ELSE cp[f]]

\* lines 65-74, for a parsed response object
analyzeMapImage(response) ==
  LET raw == IF "controlPoints" \in DOMAIN response
               THEN response.controlPoints ELSE << >>
  IN [controlPoints |-> [i \in 1..Len(raw) |-> IngestPoint(raw[i], i)],
      projection |-> IF "projection" \in DOMAIN response
                       THEN response.projection ELSE "Merchich",
      epsg |-> IF "epsg" \in DOMAIN response THEN response.epsg ELSE "6261"]

----------------------------------------------------------------------------
(* The rasters and what the detection service reads off them.              *)

\* the k-th raster a user can load
Image(k) == [src |-> k, width |-> k + 1, height |-> k + 2]

Images == { Image(k) : k \in 1..MaxImages }

\* the j-th grid intersection of raster img: pixel positions (0,0), (1,0),
\* (0,1), (1,1), (2,0), ... on a north-up grid of unit spacing whose origin
\* depends on the raster
GridPoint(img, j) ==
  LET x == ((j - 1) % 2) + 2 * ((j - 1) \div 4)
      y == ((j - 1) \div 2) % 2
  IN [pixelX |-> x, pixelY |-> y,
      lat |-> 34 + img.src - y, lng |-> -7 - img.src + x]

\* a grid intersection that the response labels itself; the label does not
\* tell the points of a response apart
LabelledPoint(img, j) ==
  [f \in {"pixelX", "pixelY", "lat", "lng", "id"} |->
     IF f = "id" THEN <<"X", 1>> ELSE GridPoint(img, j)[f]]

\* the responses the detection service can give for a raster: the object
\* without control points, or the first n grid intersections, with or
\* without an id of their own
Responses(img) ==
  { [projection |-> "Merchich"] }
    \cup { [projection |-> "Merchich", epsg |-> "6261",
            controlPoints |-> [j \in 1..n |-> GridPoint(img, j)]] :
             n \in 0..MaxDetect }
    \cup { [projection |-> "Merchich", epsg |-> "6261",
            controlPoints |-> [j \in 1..n |-> LabelledPoint(img, j)]] :
             n \in 1..MaxDetect }

----------------------------------------------------------------------------
(* The App component.                                                      *)

\* setError(null)
NoError == "null"
ErrLoad == "image load failed (CORS)"
ErrAnalyze == "AI analysis failed: not enough intersections"
ErrBundle == "error while assembling the files"

\* errors zip.generateAsync can reject with
ArchiveErrors == {"archive: out of memory", "archive: invalid entry"}

\* PRJ_DEFINITIONS (part_002:26-28)
PRJ_DEFINITIONS == [e \in {"EPSG:6261"} |-> "GEOGCS[Merchich ...]"]

\* useState / useRef initial values (part_002:36-48), map mounted
InitApp ==
  /\ build \in Build
  /\ status = "IDLE"
  /\ result = Null
  /\ error = NoError
  /\ selectedTransform = "AFFINE"
  /\ viewMode = "IMAGE"
  /\ tableState = "HIDDEN"
  /\ imgRef = Null
  /\ loads = {}
  /\ procs = {}
  /\ timers = {}
  /\ mapLayers = Null
  /\ bundles = {}
  /\ lastDownload = Null
  /\ lastEvent = "mount"
  /\ fitInvoked = FALSE
  /\ clicks = 0
  /\ registry = PRJ_DEFINITIONS
  /\ archiveError = NoError
  /\ lastResponse = Null

\* the App is not exercised
AppIdle == InitApp /\ build = "part_002"

\* setTableState exists in part_002 only
SetTable(v) == IF build = "part_002" THEN tableState' = v
                                     ELSE UNCHANGED tableState

\* a handler the user triggers: a session has at most MaxClicks of them
User(event) ==
  /\ clicks < MaxClicks
  /\ clicks' = clicks + 1
  /\ lastEvent' = event
  /\ fitInvoked' = FALSE
  /\ archiveError' = NoError
  /\ lastResponse' = Null
  /\ UNCHANGED <<registry, fitVars, extVars, wfVars>>

\* a callback the browser runs (load event, settled promise, timer);
\* raised is the error the archiving library rejected with, if it did,
\* response the parsed response of the detection service, if it resolved
Settled(event, fit, raised, response) ==
  /\ lastEvent' = event
  /\ fitInvoked' = fit
  /\ archiveError' = raised
  /\ lastResponse' = response
  /\ UNCHANGED <<clicks, registry, fitVars, extVars, wfVars>>

Callback(event, fit) == Settled(event, fit, NoError, Null)

\* onChange of the transformation select (part_002:488)
SetSelectedTransform ==
  /\ \E t \in TransformationType \ {selectedTransform} :
       selectedTransform' = t
  /\ User("setSelectedTransform")
  /\ UNCHANGED <<build, status, result, error, viewMode, tableState, imgRef,
                 loads, procs, timers, mapLayers, bundles, lastDownload>>

\* handleUrlSubmit (part_002:142-164) with a non-empty imageUrl
HandleUrlSubmit ==
  /\ Cardinality(loads) < MaxLoads
  /\ \E img \in Images :
       loads' = loads \cup {[kind |-> "url", stage |-> "decode", img |-> img]}
  /\ status' = "LOADING"
  /\ result' = Null
  /\ error' = NoError
  /\ SetTable("HIDDEN")
  /\ User("handleUrlSubmit")
  /\ UNCHANGED <<build, selectedTransform, viewMode, imgRef, procs, timers,
                 mapLayers, bundles, lastDownload>>

\* handleFileUpload (part_002:166-187) with a file chosen
HandleFileUpload ==
  /\ Cardinality(loads) < MaxLoads
  /\ \E img \in Images :
       loads' = loads \cup {[kind |-> "file", stage |-> "read", img |-> img]}
  /\ status' = "LOADING"
  /\ result' = Null
  /\ error' = NoError
  /\ SetTable("HIDDEN")
  /\ User("handleFileUpload")
  /\ UNCHANGED <<build, selectedTransform, viewMode, imgRef, procs, timers,
                 mapLayers, bundles, lastDownload>>

\* reader.onload (part_002:175-185): the image element starts decoding
ReaderOnLoad ==
  /\ \E l \in loads :
       /\ l.kind = "file" /\ l.stage = "read"
       /\ loads' = (loads \ {l}) \cup {[l EXCEPT !.stage = "decode"]}
  /\ Callback("reader.onload", FALSE)
  /\ UNCHANGED <<build, status, result, error, selectedTransform, viewMode,
                 tableState, imgRef, procs, timers, mapLayers, bundles,
                 lastDownload>>

\* img.onload (part_002:152-158 and 177-183)
ImgOnLoad ==
  /\ \E l \in loads :
       /\ l.stage = "decode"
       /\ loads' = loads \ {l}
       /\ imgRef' = l.img
  /\ status' = "IDLE"
  /\ viewMode' = "IMAGE"
  /\ Callback("img.onload", FALSE)
  /\ UNCHANGED <<build, result, error, selectedTransform, tableState, procs,
                 timers, mapLayers, bundles, lastDownload>>

\* img.onerror of a URL load (part_002:159-162)
ImgOnError ==
  /\ \E l \in loads :
       /\ l.kind = "url"
       /\ loads' = loads \ {l}
  /\ error' = ErrLoad
  /\ status' = "ERROR"
  /\ Callback("img.onerror", FALSE)
  /\ UNCHANGED <<build, result, selectedTransform, viewMode, tableState,
                 imgRef, procs, timers, mapLayers, bundles, lastDownload>>

\* a file that cannot be read or decoded: handleFileUpload registers no
\* error handler, so nothing runs
FileLoadFails ==
  /\ \E l \in loads :
       /\ l.kind = "file"
       /\ loads' = loads \ {l}
  /\ Callback("file load failed", FALSE)
  /\ UNCHANGED <<build, status, result, error, selectedTransform, viewMode,
                 tableState, imgRef, procs, timers, mapLayers, bundles,
                 lastDownload>>

\* the Raster button (part_002:413)
ShowImage ==
  /\ viewMode' = "IMAGE"
  /\ viewMode # "IMAGE"
  /\ User("showImage")
  /\ UNCHANGED <<build, status, result, error, selectedTransform, tableState,
                 imgRef, loads, procs, timers, mapLayers, bundles,
                 lastDownload>>

\* the Preview button (part_002:419-424), disabled without a result
ShowMap ==
  /\ result # Null
  /\ Cardinality(timers \cup {[res |-> result]}) <= MaxTimers
  /\ viewMode' = "MAP"
  /\ timers' = timers \cup {[res |-> result]}
  /\ User("showMap")
  /\ UNCHANGED <<build, status, result, error, selectedTransform, tableState,
                 imgRef, loads, procs, mapLayers, bundles, lastDownload>>

\* processGeoreferencing up to the await (part_002:296-310); the button is
\* disabled while there is no image or status is PROCESSING (part_002:509)
ProcessGeoreferencing ==
  /\ imgRef # Null
  /\ status # "PROCESSING"
  /\ Cardinality(procs) < MaxProcs
  /\ status' = "PROCESSING"
  /\ error' = NoError
  /\ SetTable("HIDDEN")
  /\ LET slot == CHOOSE k \in 1..MaxProcs : \A q \in procs : q.slot # k
     IN procs' = procs \cup
          {[slot |-> slot, sent |-> imgRef, type |-> selectedTransform]}
  /\ User("processGeoreferencing")
  /\ UNCHANGED <<build, result, selectedTransform, viewMode, imgRef, loads,
                 timers, mapLayers, bundles, lastDownload>>

\* a result built by a fit that remembers the parameters of its previous
\* call and hands them out again
FinalResultRememberingFit(controlPoints, type) ==
  LET transformation ==
        IF result # Null /\ result.transformation # Null
          THEN result.transformation
          ELSE calculateWorldFile(controlPoints, type)
  IN [controlPoints |-> controlPoints,
      projection |-> "Merchich (EPSG:6261)",
      epsg |-> "6261",
      metadata |-> [width |-> imgRef.width, height |-> imgRef.height],
      transformation |-> transformation,
      transformationType |-> type]

\* the GeoreferenceResult built at part_002:314-321
FinalResult(controlPoints, type) ==
  LET transformation == calculateWorldFile(controlPoints, type)
  IN [controlPoints |-> controlPoints,
      projection |-> "Merchich (EPSG:6261)",
      epsg |-> "6261",
      metadata |-> [width |-> imgRef.width, height |-> imgRef.height],
      \* transformation || undefined
      transformation |-> transformation,
      transformationType |-> type]

\* analyzeMapImage resolves; processGeoreferencing continues after the
\* await (part_002:310-329)
AnalyzeReturns ==
  /\ \E q \in procs : \E response \in Responses(q.sent) :
       LET finalResult ==
             FinalResult(analyzeMapImage(response).controlPoints, q.type)
       IN /\ Cardinality(timers \cup {[res |-> finalResult]}) <= MaxTimers
          /\ procs' = procs \ {q}
          /\ result' = finalResult
          /\ timers' = timers \cup {[res |-> finalResult]}
          /\ Settled("analyzeReturned", TRUE, NoError, response)
  /\ status' = "SUCCESS"
  /\ viewMode' = "MAP"
  /\ SetTable("MINIMIZED")
  /\ UNCHANGED <<build, error, selectedTransform, imgRef, loads, mapLayers,
                 bundles, lastDownload>>

\* a catch block that also drops the stored result
AnalyzeFailsClearingResult ==
  /\ \E q \in procs : procs' = procs \ {q}
  /\ error' = ErrAnalyze
  /\ status' = "ERROR"
  /\ result' = Null
  /\ Callback("analyzeFailed", FALSE)
  /\ UNCHANGED <<build, selectedTransform, viewMode, tableState,
                 imgRef, loads, timers, mapLayers, bundles, lastDownload>>

\* analyzeMapImage rejects (request failed or cancelled, response text is
\* not JSON); the catch block runs (part_002:330-334)
AnalyzeFails ==
  /\ \E q \in procs : procs' = procs \ {q}
  /\ error' = ErrAnalyze
  /\ status' = "ERROR"
  /\ Callback("analyzeFailed", FALSE)
  /\ UNCHANGED <<build, result, selectedTransform, viewMode, tableState,
                 imgRef, loads, timers, mapLayers, bundles, lastDownload>>

\* transformExtent(extent6261, 'EPSG:6261', 'EPSG:3857')
transformExtent(extent) ==
  [from |-> "EPSG:6261", to |-> "EPSG:3857", box |-> extent]

\* the layers updateMapPreview adds (part_002:229-292); the bbox feature
\* exists in part_002 only
PreviewLayers(res) ==
  [url    |-> imgRef.src,
   extent |-> transformExtent(extent6261(build, res.transformation,
                                         imgRef.width, imgRef.height)),
   bbox   |-> build = "part_002",
   points |-> res.controlPoints]

\* the timer callback updateMapPreview(res) (part_002:199-294); the map is
\* mounted.  transformExtent can throw: the layers are removed by then and
\* nothing is added.
UpdateMapPreview ==
  /\ \E t \in timers :
       /\ timers' = timers \ {t}
       /\ IF t.res.transformation = Null \/ imgRef = Null
            THEN UNCHANGED mapLayers
            ELSE \E reprojected \in BOOLEAN :
                   mapLayers' = IF reprojected THEN PreviewLayers(t.res)
                                               ELSE Null
  /\ Callback("updateMapPreview", FALSE)
  /\ UNCHANGED <<build, status, result, error, selectedTransform, viewMode,
                 tableState, imgRef, loads, procs, bundles, lastDownload>>

RECURSIVE Join(_, _)
\* Array.prototype.join
Join(parts, sep) ==
  IF parts = << >> THEN << >>
  ELSE IF Len(parts) = 1 THEN parts[1]
  ELSE parts[1] \o sep \o Join(Tail(parts), sep)

\* a line that writes the latitude before the longitude
GcpLineLatLng(p) ==
  Join(<<NumberToString(FromInt(p.pixelX)), NumberToString(FromInt(p.pixelY)),
         NumberToString(FromInt(p.lat)), NumberToString(FromInt(p.lng))>>,
       <<" ">>)

\* `${p.pixelX} ${p.pixelY} ${p.lng} ${p.lat}` (part_002:347)
GcpLine(p) ==
  Join(<<NumberToString(FromInt(p.pixelX)), NumberToString(FromInt(p.pixelY)),
         NumberToString(FromInt(p.lng)), NumberToString(FromInt(p.lat))>>,
       <<" ">>)

gcpText(controlPoints) ==
  Join([i \in 1..Len(controlPoints) |-> GcpLine(controlPoints[i])], <<"\n">>)

\* a boundary whose positions are written latitude first
BoundaryGeoJSONLatLng(controlPoints, name) ==
  [type |-> "FeatureCollection",
   features |-> << [type |-> "Feature",
                    properties |-> [name |-> name],
                    geometry |->
                      [type |-> "Polygon",
                       coordinates |->
                         << [i \in 1..Len(controlPoints) |->
                               <<controlPoints[i].lat,
                                 controlPoints[i].lng>>] >>]] >>]

\* the boundary object of part_002:350-360
BoundaryGeoJSON(controlPoints, name) ==
  [type |-> "FeatureCollection",
   features |-> << [type |-> "Feature",
                    properties |-> [name |-> name],
                    geometry |->
                      [type |-> "Polygon",
                       coordinates |->
                         << [i \in 1..Len(controlPoints) |->
                               <<controlPoints[i].lng,
                                 controlPoints[i].lat>>] >>]] >>]

\* JSON.stringify of an object: the text that denotes it
JsonStringify(obj) == [json |-> obj]

\* canvas.toDataURL of the current raster (part_002:363-368)
JpegOf(img) == [jpeg |-> img.src, width |-> img.width, height |-> img.height]

\* base name of the archive entries: map_product in App.tsx, raster_map in
\* the other builds
EntryName(ext) ==
  <<IF build = "App.tsx" THEN "map_product" ELSE "raster_map", ext>>

\* variant: the projection file describes another reference system
ZipEntriesOtherPrj(res, img) ==
  { <<EntryName(".jgw"), WorldFileText(res.transformation)>>,
    <<EntryName(".prj"), "GEOGCS[WGS 84 ...]">>,
    <<EntryName(".jpg"), JpegOf(img)>> }
  \cup (IF build = "part_002"
          THEN { <<EntryName(".gcp"), gcpText(res.controlPoints)>>,
                 <<<<"boundary", ".geojson">>,
                   JsonStringify(BoundaryGeoJSON(res.controlPoints,
                                                 "Extent"))>> }
          ELSE {})

\* the files put into the archive (part_002:342-369, part_001:257-268,
\* App.tsx:230-241): a set of <<name, content>> pairs
ZipEntries(res, img) ==
  { <<EntryName(".jgw"), WorldFileText(res.transformation)>>,
    <<EntryName(".prj"), registry["EPSG:6261"]>>,
    <<EntryName(".jpg"), JpegOf(img)>> }
  \cup (IF build = "part_002"
          THEN { <<EntryName(".gcp"), gcpText(res.controlPoints)>>,
                 <<<<"boundary", ".geojson">>,
                   JsonStringify(BoundaryGeoJSON(res.controlPoints,
                                                 "Extent"))>> }
          ELSE {})

\* a.download (part_002:375, App.tsx:247)
ZipName(type) ==
  IF build = "App.tsx" THEN <<"GeoSnap_", type, "_Merchich_Output.zip">>
                       ELSE <<"GeoSnap_GIS_Bundle_", type, ".zip">>

\* downloadGisBundle up to the await (part_002:337-371); the button is
\* rendered only when there is a result (part_002:523)
DownloadGisBundle ==
  /\ result # Null
  /\ result.transformation # Null
  /\ imgRef # Null
  /\ Cardinality(bundles) < MaxBundles
  /\ status' = "LOADING"
  /\ bundles' = bundles \cup
       {[entries |-> ZipEntries(result, imgRef),
         name |-> ZipName(selectedTransform)]}
  /\ User("downloadGisBundle")
  /\ UNCHANGED <<build, result, error, selectedTransform, viewMode,
                 tableState, imgRef, loads, procs, timers, mapLayers,
                 lastDownload>>

\* zip.generateAsync resolves (part_002:371-381)
BundleGenerated ==
  /\ \E b \in bundles :
       /\ bundles' = bundles \ {b}
       /\ lastDownload' = b
  /\ status' = "SUCCESS"
  /\ Callback("bundleGenerated", FALSE)
  /\ UNCHANGED <<build, result, error, selectedTransform, viewMode,
                 tableState, imgRef, loads, procs, timers, mapLayers>>

\* zip.generateAsync rejects; the catch block runs (part_002:382-385)
BundleFails ==
  /\ \E b \in bundles : bundles' = bundles \ {b}
  /\ error' = ErrBundle
  /\ status' = "ERROR"
  /\ \E raised \in ArchiveErrors : Settled("bundleFailed", FALSE, raised, Null)
  /\ UNCHANGED <<build, result, selectedTransform, viewMode, tableState,
                 imgRef, loads, procs, timers, mapLayers, lastDownload>>

\* a single file handed to the browser: a.download and the Blob content
Download(name, content) == [name |-> name, content |-> content]

\* downloadGCPFile (part_002:127-140); its button is rendered only when
\* there is a result (part_002:523, 534)
DownloadGCPFile ==
  /\ build = "part_002"
  /\ result # Null
  /\ lastDownload' = Download(<<"control_points", ".gcp">>,
                              gcpText(result.controlPoints))
  /\ User("downloadGCPFile")
  /\ UNCHANGED <<build, status, result, error, selectedTransform, viewMode,
                 tableState, imgRef, loads, procs, timers, mapLayers,
                 bundles>>

\* onClick of the GeoJSON button (part_002:540-553), rendered only when
\* there is a result
DownloadGeoJSONButton ==
  /\ build = "part_002"
  /\ result # Null
  /\ lastDownload' =
       Download(<<"boundary", ".geojson">>,
                JsonStringify(BoundaryGeoJSON(result.controlPoints,
                                              "Boundary")))
  /\ User("downloadGeoJSONButton")
  /\ UNCHANGED <<build, status, result, error, selectedTransform, viewMode,
                 tableState, imgRef, loads, procs, timers, mapLayers,
                 bundles>>

\* downloadGeoJSON (part_002:101-125) as the closure res of `result' it
\* was created with sees it
downloadGeoJSON(res) ==
  IF res = Null
    THEN UNCHANGED lastDownload
    ELSE lastDownload' =
           Download(<<"boundary", ".geojson">>,
                    JsonStringify(BoundaryGeoJSON(res.controlPoints,
                                                  "Map Bounding Box")))

\* the `result' seen by the select handler: the effect that registers it
\* runs once, after the first render (part_002:38, 64-99), and its
\* downloadGeoJSON is the one of that render, where result is the initial
\* useState value
ResultAtMount == Null

\* a click on the bbox feature of the map (part_002:86-91)
SelectBbox ==
  /\ build = "part_002"
  /\ viewMode = "MAP"
  /\ mapLayers # Null /\ mapLayers.bbox
  /\ downloadGeoJSON(ResultAtMount)
  /\ User("selectBbox")
  /\ UNCHANGED <<build, status, result, error, selectedTransform, viewMode,
                 tableState, imgRef, loads, procs, timers, mapLayers,
                 bundles>>

NextApp ==
  \/ SetSelectedTransform
  \/ HandleUrlSubmit
  \/ HandleFileUpload
  \/ ReaderOnLoad
  \/ ImgOnLoad
  \/ ImgOnError
  \/ FileLoadFails
  \/ ShowImage
  \/ ShowMap
  \/ ProcessGeoreferencing
  \/ AnalyzeReturns
  \/ AnalyzeFails
  \/ UpdateMapPreview
  \/ DownloadGisBundle
  \/ BundleGenerated
  \/ BundleFails
  \/ DownloadGCPFile
  \/ DownloadGeoJSONButton
  \/ SelectBbox

----------------------------------------------------------------------------
(* The specifications.                                                     *)

\* the App component
Init == InitApp /\ FitIdle /\ ExtIdle /\ WfIdle

Spec == Init /\ [][NextApp]_vars

\* calculateWorldFile on enumerated control-point lists
InitFitOnly == InitFit /\ AppIdle /\ ExtIdle /\ WfIdle

SpecFit == InitFitOnly /\ [][NextFit]_vars

\* the extent computation on enumerated parameters and raster sizes
InitExtentOnly == InitExtent /\ AppIdle /\ FitIdle /\ WfIdle

SpecExtent == InitExtentOnly /\ [][NextExtent]_vars

\* the world file writer on enumerated parameters
InitWorldFileOnly == InitWorldFile /\ AppIdle /\ FitIdle /\ ExtIdle

SpecWorldFile == InitWorldFileOnly /\ [][NextWorldFile]_vars

----------------------------------------------------------------------------
(* Properties of calculateWorldFile, checked under SpecFit.                *)

IsParams(x) == DOMAIN x = {"A", "B", "C", "D", "E", "F"}

Called == fitOut # Pending

FitPx   == Column(fitPoints, "pixelX")
FitPy   == Column(fitPoints, "pixelY")
FitLngs == Column(fitPoints, "lng")
FitLats == Column(fitPoints, "lat")

\* the normal matrix of the pixel columns and its determinant by the rule
\* of Sarrus, written without reference to the expansion in the code
NormalMatrixDet(px, py) ==
  LET a == Sum(Prod(px, px))  b == Sum(Prod(px, py))  c == Sum(px)
      e == Sum(Prod(py, py))  f == Sum(py)            i == Len(px)
  IN a * e * i + b * f * c + c * b * f - c * e * c - b * b * i - a * f * f

\* C1: for N >= 2 points with a near-singular normal matrix (collinear or
\* duplicated pixel positions, every 2-point input) calculateWorldFile
\* signals a failure and does not return a TransformationParams value
\* (whose coefficients would all be zero).
C1_DegenerateIsFailure ==
  (Called /\ Len(fitPoints) >= 2 /\ NormalMatrixDet(FitPx, FitPy) = 0)
     => ~IsParams(fitOut)

\* C3: with fewer than 2 control points calculateWorldFile produces the
\* failure outcome (null) and never a TransformationParams value, for
\* every transformation type.
C3_InsufficientPoints ==
  (Called /\ Len(fitPoints) < 2) => (fitOut = Null /\ ~IsParams(fitOut))

C3_Witness ==
  Called /\ Len(fitPoints) = 1 /\ fitType = "HELMERT" /\ fitOut = Null

\* the three pixel positions are not on one line (twice the signed area of
\* the triangle is not zero)
NonCollinear3(p) ==
  (p[2].pixelX - p[1].pixelX) * (p[3].pixelY - p[1].pixelY)
    - (p[3].pixelX - p[1].pixelX) * (p[2].pixelY - p[1].pixelY) # 0

\* the forward affine map of t applied to the pixel position of point p
ForwardX(t, p) ==
  RAdd(RAdd(RMul(t.A, FromInt(p.pixelX)), RMul(t.B, FromInt(p.pixelY))), t.C)
ForwardY(t, p) ==
  RAdd(RAdd(RMul(t.D, FromInt(p.pixelX)), RMul(t.E, FromInt(p.pixelY))), t.F)

Reproduces(t, p) ==
  ForwardX(t, p) = FromInt(p.lng) /\ ForwardY(t, p) = FromInt(p.lat)

ExampleParams ==
  TransformationParams(FromInt(1), Zero, FromInt(-70),
                       Zero, FromInt(-1), FromInt(340))

\* C4: for exactly 3 non-collinear control points the AFFINE result maps
\* each input pixel exactly onto its geographic coordinate, and the worked
\* example yields A=0.001, B=0, C=-7.0, D=0, E=-0.001, F=34.0 (here in
\* tenths of a degree per 100 pixels: 1, 0, -70, 0, -1, 340).
C4_ExactFit3 ==
  (Called /\ fitType = "AFFINE" /\ Len(fitPoints) = 3
      /\ NonCollinear3(fitPoints))
     => /\ IsParams(fitOut)
        /\ \A i \in 1..3 : Reproduces(fitOut, fitPoints[i])
        /\ fitPoints = ExamplePoints => fitOut = ExampleParams

C4_Witness ==
  Called /\ fitType = "AFFINE" /\ fitPoints = ExamplePoints
    /\ fitOut = ExampleParams

\* the triple <<a, b, c>> solves the normal equations of observation obs
SolvesNormalEquations(a, b, c, obs, px, py) ==
  LET s == NormalSums(obs, px, py)
      lhs(m1, m2, m3) ==
        RAdd(RAdd(RMul(FromInt(m1), a), RMul(FromInt(m2), b)),
             RMul(FromInt(m3), c))
  IN /\ lhs(s.sXX, s.sXY, s.sX) = FromInt(s.sOX)
     /\ lhs(s.sXY, s.sYY, s.sY) = FromInt(s.sOY)
     /\ lhs(s.sX,  s.sY,  s.n)  = FromInt(s.sO)

\* C5: for N >= 3 control points with a non-singular normal matrix the
\* triple returned by solveAffineParams for an observation vector solves
\* the 3x3 normal-equation system (for the lng row and for the lat row).
C5_NormalEquations ==
  (Called /\ fitType = "AFFINE" /\ Len(fitPoints) >= 3
      /\ NormalMatrixDet(FitPx, FitPy) # 0)
     => /\ IsParams(fitOut)
        /\ SolvesNormalEquations(fitOut.A, fitOut.B, fitOut.C,
                                 FitLngs, FitPx, FitPy)
        /\ SolvesNormalEquations(fitOut.D, fitOut.E, fitOut.F,
                                 FitLats, FitPx, FitPy)

\* an overdetermined fit: 4 points, non-singular, not all reproduced
C5_Witness ==
  /\ Called /\ fitType = "AFFINE" /\ Len(fitPoints) = 4
  /\ NormalMatrixDet(FitPx, FitPy) # 0
  /\ \E i \in 1..4 : ~Reproduces(fitOut, fitPoints[i])

\* the AFFINE fit of the list handed to the call
AffineFit == calculateWorldFile(fitPoints, "AFFINE")

\* A = s*cos(t), B = -s*sin(t), D = s*sin(t), E = s*cos(t) for some s > 0
IsPureSimilarity(t) ==
  /\ t.A = t.E /\ t.D = RNeg(t.B)
  /\ (Sign(t.A) # 0 \/ Sign(t.D) # 0)

\* C11: the HELMERT derivation applied to a fitted affine that is already
\* a pure similarity (any rotation, any translation) returns the same six
\* parameters.
C11_HelmertKeepsSimilarity ==
  (Called /\ fitType = "HELMERT" /\ Len(fitPoints) >= 2
      /\ IsPureSimilarity(AffineFit))
     => fitOut = AffineFit

\* C12: for every input point list the C and F of the HELMERT result equal
\* the C and F of the AFFINE result for the same points; the derivation
\* changes only A, B, D, E.
C12_HelmertKeepsTranslation ==
  (Called /\ fitType = "HELMERT" /\ Len(fitPoints) >= 2)
     => /\ IsParams(fitOut)
        /\ fitOut.C = AffineFit.C
        /\ fitOut.F = AffineFit.F

\* the worked example under HELMERT: the derivation turns the north-up
\* axes by a quarter turn and keeps the translation (-70, 340)
C12_Witness ==
  /\ Called /\ fitType = "HELMERT" /\ fitPoints = ExamplePoints
  /\ fitOut.A # AffineFit.A /\ fitOut.E # AffineFit.E
  /\ fitOut.C = FromInt(-70) /\ fitOut.F = FromInt(340)

\* the lists that agree with points except for the given field of one
\* point, which is one unit larger
VaryField(points, field) ==
  { [points EXCEPT ![i][field] = @ + 1] : i \in 1..Len(points) }

\* C13: in an AFFINE fit the two rows are independent -- an input with the
\* same pixel coordinates and the same lng values but another lat value
\* gets the same (A, B, C), and (D, E, F) does not depend on the lng values.
C13_RowsIndependent ==
  (Called /\ fitType = "AFFINE" /\ Len(fitPoints) >= 2)
     => /\ \A q \in VaryField(fitPoints, "lat") :
             LET t == calculateWorldFile(q, "AFFINE")
             IN t.A = fitOut.A /\ t.B = fitOut.B /\ t.C = fitOut.C
        /\ \A q \in VaryField(fitPoints, "lng") :
             LET t == calculateWorldFile(q, "AFFINE")
             IN t.D = fitOut.D /\ t.E = fitOut.E /\ t.F = fitOut.F

\* a non-degenerate fit whose latitude row does change with the latitudes,
\* so that a longitude row depending on them would show
C13_Witness ==
  /\ Called /\ fitType = "AFFINE" /\ Len(fitPoints) = 3
  /\ NormalMatrixDet(FitPx, FitPy) # 0
  /\ \A q \in VaryField(fitPoints, "lat") :
       LET t == calculateWorldFile(q, "AFFINE")
       IN <<t.D, t.E, t.F>> # <<fitOut.D, fitOut.E, fitOut.F>>

----------------------------------------------------------------------------
(* Properties of the extent, checked under SpecExtent.                     *)

ExtentCalled == extOut # Pending

\* C6: for all transformation parameters and raster sizes W, H >= 0,
\* including negative A or positive E, the extent computed by
\* updateMapPreview before reprojection has xmin <= xmax and ymin <= ymax.
C6_ExtentOrdered ==
  ExtentCalled =>
    RLeq(extOut.xmin, extOut.xmax) /\ RLeq(extOut.ymin, extOut.ymax)

\* the image of the raster point (x, y) under the affine map t
MapPoint(t, x, y) ==
  << RAdd(RAdd(RMul(t.A, FromInt(x)), RMul(t.B, FromInt(y))), t.C),
     RAdd(RAdd(RMul(t.D, FromInt(x)), RMul(t.E, FromInt(y))), t.F) >>

RasterCorners(w, h) == { <<0, 0>>, <<w, 0>>, <<w, h>>, <<0, h>> }

Inside(e, q) ==
  /\ RLeq(e.xmin, q[1]) /\ RLeq(q[1], e.xmax)
  /\ RLeq(e.ymin, q[2]) /\ RLeq(q[2], e.ymax)

\* C7: the extent computed by updateMapPreview is the componentwise
\* min/max of the images of the four raster corners (0,0), (W,0), (W,H),
\* (0,H): each mapped corner lies inside the box and each side of the box
\* is attained by a mapped corner.
C7_ExtentIsCornerBox ==
  ExtentCalled =>
    LET img == { MapPoint(extParams, c[1], c[2]) :
                   c \in RasterCorners(extW, extH) }
    IN /\ \A q \in img : Inside(extOut, q)
       /\ \E q \in img : q[1] = extOut.xmin
       /\ \E q \in img : q[1] = extOut.xmax
       /\ \E q \in img : q[2] = extOut.ymin
       /\ \E q \in img : q[2] = extOut.ymax

----------------------------------------------------------------------------
(* Properties of the world file text, checked under SpecWorldFile.         *)

RECURSIVE SplitLines(_, _)
\* the lines of a text: the runs between "\n" characters; cur is the line
\* being read
SplitLines(text, cur) ==
  IF text = << >> THEN <<cur>>
  ELSE IF Head(text) = "\n" THEN <<cur>> \o SplitLines(Tail(text), << >>)
  ELSE SplitLines(Tail(text), Append(cur, Head(text)))

Lines(text) == SplitLines(text, << >>)

IsDigit(c) == \E i \in 1..10 : DigitChars[i] = c
DigitValue(c) == (CHOOSE i \in 1..10 : DigitChars[i] = c) - 1

\* a line that reads as a decimal number: optional "-", digits, and
\* optionally "." followed by digits
IsDecimal(line) ==
  LET body == IF line # << >> /\ Head(line) = "-" THEN Tail(line) ELSE line
      dots == { i \in 1..Len(body) : body[i] = "." }
  IN /\ body # << >>
     /\ \A i \in 1..Len(body) : IsDigit(body[i]) \/ body[i] = "."
     /\ Cardinality(dots) <= 1
     /\ \A i \in dots : 1 < i /\ i < Len(body)

RECURSIVE DigitsValue(_, _)
DigitsValue(ds, acc) ==
  IF ds = << >> THEN acc
  ELSE DigitsValue(Tail(ds), acc * 10 + DigitValue(Head(ds)))

\* the number a decimal line denotes
ParseNumber(line) ==
  LET neg  == Head(line) = "-"
      body == IF neg THEN Tail(line) ELSE line
      dots == { i \in 1..Len(body) : body[i] = "." }
      dot  == IF dots = {} THEN Len(body) + 1 ELSE CHOOSE i \in dots : TRUE
      ip   == SubSeq(body, 1, dot - 1)
      fp   == SubSeq(body, dot + 1, Len(body))
      mant == DigitsValue(ip \o fp, 0)
  IN Rat(IF neg THEN -mant ELSE mant, 10 ^ Len(fp))

\* reading a world file: six lines in the order A, D, B, E, C, F
ParseWorldFile(text) ==
  LET l == Lines(text)
  IN IF Len(l) = 6 /\ \A i \in 1..6 : IsDecimal(l[i])
       THEN TransformationParams(ParseNumber(l[1]), ParseNumber(l[3]),
                                 ParseNumber(l[5]), ParseNumber(l[2]),
                                 ParseNumber(l[4]), ParseNumber(l[6]))
       ELSE Null

\* C9: round trip -- parsing the six lines of the emitted world file as
\* (A, D, B, E, C, F) yields the TransformationParams that were serialized.
C9_WorldFileRoundTrip ==
  wfText # NoText => ParseWorldFile(wfText) = wfParams

\* a written file whose values include a negative fraction, a fraction
\* with a zero after the point, a multi-digit integer and zero
C9_Witness ==
  /\ wfText # NoText
  /\ wfParams.A = Rat(-12, 100) /\ wfParams.D = Rat(7, 100)
  /\ wfParams.B = FromInt(-12) /\ wfParams.E = Zero
  /\ wfParams.C = Rat(-12, 10) /\ wfParams.F = FromInt(7)

----------------------------------------------------------------------------
(* Properties of the App component, checked under Spec.                    *)

\* C2: no failure yields a partially populated result -- a result that
\* processGeoreferencing stores (with status SUCCESS) carries a complete
\* TransformationParams; a failed fit is signalled as an error instead.
C2_NoPartialResult ==
  result # Null => IsParams(result.transformation)

\* the content of the archive entry with the given extension
EntryContent(b, ext) ==
  LET e == CHOOSE e \in b.entries : e[1] = EntryName(ext) IN e[2]

\* C8: the world file written by downloadGisBundle consists of exactly six
\* newline-separated numbers, in the order A, D, B, E, C, F of the
\* result's TransformationParams.
C8_WorldFileOrder ==
  lastEvent = "downloadGisBundle" =>
    \E b \in bundles :
      LET l == Lines(EntryContent(b, ".jgw"))
          t == result.transformation
      IN /\ Len(l) = 6
         /\ \A i \in 1..6 : IsDecimal(l[i])
         /\ l = << NumberToString(t.A), NumberToString(t.D),
                   NumberToString(t.B), NumberToString(t.E),
                   NumberToString(t.C), NumberToString(t.F) >>

\* a world file was written for a result whose six coefficients tell the
\* positions apart (B differs from D, A from C and E from F)
C8_Witness ==
  /\ lastEvent = "downloadGisBundle"
  /\ bundles # {}
  /\ result.transformation.B # result.transformation.D
  /\ result.transformation.A # result.transformation.C
  /\ result.transformation.E # result.transformation.F

\* C10: if the detection call fails or is cancelled during
\* processGeoreferencing, calculateWorldFile is not invoked and the stored
\* GeoreferenceResult is left unchanged; of the App state only status and
\* error change.
C10_FailedDetectionKeepsResult ==
  [][lastEvent' = "analyzeFailed" =>
       /\ ~fitInvoked'
       /\ result' = result
       /\ UNCHANGED <<selectedTransform, viewMode, tableState, imgRef,
                      mapLayers, timers, loads, bundles, lastDownload>>]_vars

\* a detection failed while a result of an earlier attempt is stored
C10_Witness ==
  /\ lastEvent = "analyzeFailed"
  /\ result # Null /\ IsParams(result.transformation)
  /\ status = "ERROR" /\ error = ErrAnalyze

RawPoints(response) ==
  IF "controlPoints" \in DOMAIN response THEN response.controlPoints ELSE << >>

\* C15: on ingestion of a detection response with k points analyzeMapImage
\* returns k control points in response order whose ids are exactly
\* GCP-1 ... GCP-k, pairwise distinct, whatever id the response objects
\* carry.
C15_SequentialIds ==
  [][lastEvent' = "analyzeReturned" =>
       \E q \in procs : \E response \in Responses(q.sent) :
         LET raw == RawPoints(response)
             cps == result'.controlPoints
         IN /\ Len(cps) = Len(raw)
            /\ \A i \in 1..Len(cps) :
                 /\ cps[i].id = GcpId(i)
                 /\ \A f \in {"pixelX", "pixelY", "lat", "lng"} :
                      cps[i][f] = raw[i][f]
            /\ \A i, j \in 1..Len(cps) : i # j => cps[i].id # cps[j].id]_vars

\* a response of the longest length has been ingested
C15_Witness ==
  /\ lastEvent = "analyzeReturned"
  /\ Len(result.controlPoints) = MaxDetect
  /\ \A i \in 1..MaxDetect : result.controlPoints[i].id = GcpId(i)
  /\ result.controlPoints[1].pixelX # result.controlPoints[2].pixelX

\* the boundary objects that have been exported: the boundary entry of an
\* archive being generated or delivered, and a boundary file downloaded on
\* its own
IsBundle(d) == "entries" \in DOMAIN d

BoundaryEntries(b) ==
  { e[2].json : e \in { x \in b.entries : x[1] = <<"boundary", ".geojson">> } }

ExportedBoundaries ==
  UNION { BoundaryEntries(b) : b \in bundles }
    \cup (IF lastDownload = Null THEN {}
          ELSE IF IsBundle(lastDownload) THEN BoundaryEntries(lastDownload)
          ELSE IF lastDownload.name = <<"boundary", ".geojson">>
            THEN {lastDownload.content.json}
          ELSE {})

\* the polygon rings of a boundary object
Rings(geojson) ==
  UNION { { ft.geometry.coordinates[i] :
              i \in 1..Len(ft.geometry.coordinates) } :
          ft \in { geojson.features[k] : k \in 1..Len(geojson.features) } }

\* first position repeated as the last
IsClosedRing(ring) == Len(ring) >= 2 /\ ring[1] = ring[Len(ring)]

\* C16: every polygon ring of an exported boundary GeoJSON is closed (its
\* first coordinate pair is repeated as its last), in the bundle export
\* and in the standalone GeoJSON downloads.
C16_RingsClosed ==
  \A g \in ExportedBoundaries : \A ring \in Rings(g) :
    ring # << >> => IsClosedRing(ring)

\* g is a FeatureCollection with exactly one Polygon feature whose single
\* ring lists the [lng, lat] pairs of the points, in their order
TracesControlPoints(g, points) ==
  /\ g.type = "FeatureCollection"
  /\ Len(g.features) = 1
  /\ g.features[1].type = "Feature"
  /\ g.features[1].geometry.type = "Polygon"
  /\ Len(g.features[1].geometry.coordinates) = 1
  /\ LET ring == g.features[1].geometry.coordinates[1]
     IN /\ Len(ring) = Len(points)
        /\ \A i \in 1..Len(points) :
             ring[i] = <<points[i].lng, points[i].lat>>

\* C17: the boundary GeoJSON is a FeatureCollection with exactly one
\* Polygon feature whose single ring lists the [lng, lat] pair of every
\* control point of the result, in control-point order (and not the
\* corners of the extent box).
C17_BoundaryTracesControlPoints ==
  /\ (build = "part_002" /\ lastEvent = "downloadGisBundle")
       => \E b \in bundles :
            /\ BoundaryEntries(b) # {}
            /\ \A g \in BoundaryEntries(b) :
                 TracesControlPoints(g, result.controlPoints)
  /\ (build = "part_002" /\ lastEvent = "downloadGeoJSONButton")
       => TracesControlPoints(lastDownload.content.json,
                              result.controlPoints)

\* a bundle with the boundary of three control points whose lng and lat
\* differ
C17_Witness ==
  /\ build = "part_002" /\ lastEvent = "downloadGisBundle"
  /\ Len(result.controlPoints) = 3
  /\ \E b \in bundles : \E g \in BoundaryEntries(b) :
       /\ Len(g.features[1].geometry.coordinates[1]) = 3
       /\ g.features[1].geometry.coordinates[1][1][1]
            # g.features[1].geometry.coordinates[1][1][2]

\* the archives produced so far: being generated, or delivered
ProducedBundles ==
  bundles \cup (IF lastDownload # Null /\ IsBundle(lastDownload)
                  THEN {lastDownload} ELSE {})

\* the entries of archive b whose name ends in ext
EntriesWithExt(b, ext) == { e \in b.entries : e[1][2] = ext }

\* C18: whenever downloadGisBundle produces the archive, it contains all
\* five entries: the world file, the projection file, the control-point
\* list, the boundary GeoJSON and the raster image.
C18_FiveEntries ==
  \A b \in ProducedBundles :
    /\ \A ext \in {".jgw", ".prj", ".gcp", ".geojson", ".jpg"} :
         Cardinality(EntriesWithExt(b, ext)) = 1
    /\ Cardinality(b.entries) = 5

RECURSIVE SplitOn(_, _, _)
\* the runs of text between occurrences of the character sep
SplitOn(text, sep, cur) ==
  IF text = << >> THEN <<cur>>
  ELSE IF Head(text) = sep THEN <<cur>> \o SplitOn(Tail(text), sep, << >>)
  ELSE SplitOn(Tail(text), sep, Append(cur, Head(text)))

\* the lines of a file: an empty file has none
FileLines(text) == IF text = << >> THEN << >> ELSE SplitOn(text, "\n", << >>)

\* text has one line per point, in order, each line being the decimal
\* texts of pixelX, pixelY, lng, lat separated by single spaces
IsGcpFileOf(text, points) ==
  LET lines == FileLines(text)
  IN /\ Len(lines) = Len(points)
     /\ \A i \in 1..Len(points) :
          LET fields == SplitOn(lines[i], " ", << >>)
          IN /\ Len(fields) = 4
             /\ \A k \in 1..4 : IsDecimal(fields[k])
             /\ ParseNumber(fields[1]) = FromInt(points[i].pixelX)
             /\ ParseNumber(fields[2]) = FromInt(points[i].pixelY)
             /\ ParseNumber(fields[3]) = FromInt(points[i].lng)
             /\ ParseNumber(fields[4]) = FromInt(points[i].lat)

\* C19: the control-point file has one line per control point of the
\* result, in control-point order, each line being the four values pixelX,
\* pixelY, lng, lat in that order separated by single spaces, in the
\* bundle entry and in downloadGCPFile.
C19_GcpFileLines ==
  /\ (build = "part_002" /\ lastEvent = "downloadGisBundle")
       => \E b \in bundles :
            /\ EntriesWithExt(b, ".gcp") # {}
            /\ \A e \in EntriesWithExt(b, ".gcp") :
                 IsGcpFileOf(e[2], result.controlPoints)
  /\ (build = "part_002" /\ lastEvent = "downloadGCPFile")
       => IsGcpFileOf(lastDownload.content, result.controlPoints)

\* downloadGCPFile wrote the file of three control points
C19_Witness ==
  /\ build = "part_002" /\ lastEvent = "downloadGCPFile"
  /\ Len(result.controlPoints) = 3
  /\ Len(FileLines(lastDownload.content)) = 3

\* the step is an updateMapPreview whose transformExtent call threw: the
\* timer's result has a transformation and there is a raster, yet the map
\* is left without preview layers
ReprojectionFailed ==
  /\ lastEvent' = "updateMapPreview"
  /\ imgRef # Null
  /\ \E t \in timers : t \notin timers' /\ t.res.transformation # Null
  /\ mapLayers' = Null

\* C20: a failure of the reprojection call (transformExtent) during the
\* map preview is surfaced as an error outcome of the fit attempt: the
\* error state is set, and status does not stay SUCCESS.
C20_ReprojectionFailureSurfaced ==
  [][ReprojectionFailed => (status' = "ERROR" /\ error' # NoError)]_vars

\* C21: an error raised by the archiving library during downloadGisBundle
\* propagates unchanged: the error that surfaces is the one that was
\* raised, not a different one, and the stored result is unchanged.
C21_ArchiveErrorPropagates ==
  [][lastEvent' = "bundleFailed" =>
       (error' = archiveError' /\ result' = result)]_vars

\* C22: the projection registry is immutable -- no operation adds, removes
\* or changes an entry -- and the projection file written into an archive
\* is always the registry entry for EPSG:6261.
C22_RegistryImmutable ==
  /\ registry = PRJ_DEFINITIONS
  /\ \A b \in ProducedBundles :
       /\ Cardinality(EntriesWithExt(b, ".prj")) = 1
       /\ \A e \in EntriesWithExt(b, ".prj") :
            e[2] = PRJ_DEFINITIONS["EPSG:6261"]

\* an archive has been generated and handed to the browser
C22_Witness ==
  /\ lastEvent = "bundleGenerated"
  /\ lastDownload # Null /\ IsBundle(lastDownload)
  /\ EntriesWithExt(lastDownload, ".prj") # {}

\* C23: calculateWorldFile(points, PROJECTIVE) returns what
\* calculateWorldFile(points, AFFINE) returns for every point list: the
\* type PROJECTIVE falls back to the affine least-squares fit, only
\* HELMERT changes the coefficients.
C23_ProjectiveIsAffine ==
  (Called /\ fitType = "PROJECTIVE")
     => /\ fitOut = AffineFit
        /\ (Len(fitPoints) >= 3 /\ NormalMatrixDet(FitPx, FitPy) # 0)
             => /\ SolvesNormalEquations(fitOut.A, fitOut.B, fitOut.C,
                                         FitLngs, FitPx, FitPy)
                /\ SolvesNormalEquations(fitOut.D, fitOut.E, fitOut.F,
                                         FitLats, FitPx, FitPy)

\* the worked example under PROJECTIVE, where the HELMERT derivation would
\* have given other coefficients
C23_Witness ==
  /\ Called /\ fitType = "PROJECTIVE" /\ fitPoints = ExamplePoints
  /\ IsParams(fitOut)
  /\ calculateWorldFile(fitPoints, "HELMERT") # fitOut

\* a response that has the fields the response schema requires
\* (projection, controlPoints; pixelX, pixelY, lat, lng of every point)
IsValidResponse(response) ==
  /\ {"projection", "controlPoints"} \subseteq DOMAIN response
  /\ \A i \in 1..Len(response.controlPoints) :
       {"pixelX", "pixelY", "lat", "lng"}
          \subseteq DOMAIN response.controlPoints[i]

\* C24: analyzeMapImage fails fast on an invalid detection response: a
\* detection completes with control points (possibly none) and projection
\* values only for a response that has the required fields; an empty or
\* field-less response is a failure.
C24_InvalidResponseFails ==
  lastEvent = "analyzeReturned" => IsValidResponse(lastResponse)

\* C25: under every interleaving of image loads with an in-flight
\* processGeoreferencing a stored result is a snapshot of one raster: the
\* metadata width and height of the result stored when a detection
\* completes are those of the image the detection request was made for.
C25_ResultIsSnapshot ==
  [][lastEvent' = "analyzeReturned" =>
       \E q \in procs :
         /\ q \notin procs'
         /\ lastResponse' \in Responses(q.sent)
         /\ result'.metadata = [width |-> q.sent.width,
                                height |-> q.sent.height]]_vars

\* C26: in every reachable state of the App, status = SUCCESS implies that
\* a result is stored.
C26_SuccessHasResult ==
  status = "SUCCESS" => result # Null

\* C27: at most one detection request is outstanding at any time.
C27_OneDetectionOutstanding ==
  Cardinality(procs) <= 1

\* C28: every image load leaves the LOADING status: when the browser
\* delivers the load or error event that ends a load started by
\* handleUrlSubmit or handleFileUpload, and status is still LOADING, status
\* becomes IDLE (image loaded) or ERROR (read or decode failed).
C28_LoadLeavesLoading ==
  [][(status = "LOADING" /\ Cardinality(loads') < Cardinality(loads))
        => status' \in {"IDLE", "ERROR"}]_vars

\* C29: after a successful fit has put a bbox feature on the map, a click
\* selecting that feature downloads boundary.geojson built from the
\* control points of the current result.
C29_SelectDownloadsBoundary ==
  [][(lastEvent' = "selectBbox" /\ result # Null)
        => lastDownload' =
             Download(<<"boundary", ".geojson">>,
                      JsonStringify(BoundaryGeoJSON(result.controlPoints,
                                                    "Map Bounding Box")))]_vars

\* the row is the zero fallback value [0, 0, 0]
ZeroRow(a, b, c) == a = Zero /\ b = Zero /\ c = Zero

\* the solve of observation vector obs over the pixel columns of the call
\* takes the branch of line 97
FallbackTaken(obs) == NearSingular(Det(NormalSums(obs, FitPx, FitPy)))

\* C30: the degenerate fallback is all-or-nothing across rows: in an
\* AFFINE result the solve of the lng row takes the zero fallback exactly
\* when the solve of the lat row does; then both rows are zero, and
\* otherwise both rows are fitted (each solves its normal equations), so
\* no result mixes a fitted row with a fallback row.
C30_FallbackAllOrNothing ==
  (Called /\ fitType = "AFFINE" /\ Len(fitPoints) >= 2)
     => /\ FallbackTaken(FitLngs) <=> FallbackTaken(FitLats)
        /\ FallbackTaken(FitLngs)
             => /\ ZeroRow(fitOut.A, fitOut.B, fitOut.C)
                /\ ZeroRow(fitOut.D, fitOut.E, fitOut.F)
        /\ ~FallbackTaken(FitLngs)
             => /\ SolvesNormalEquations(fitOut.A, fitOut.B, fitOut.C,
                                         FitLngs, FitPx, FitPy)
                /\ SolvesNormalEquations(fitOut.D, fitOut.E, fitOut.F,
                                         FitLats, FitPx, FitPy)

\* three points on one line whose longitudes and latitudes differ and are
\* not all zero: both rows fell back
C30_Witness ==
  /\ Called /\ fitType = "AFFINE" /\ Len(fitPoints) = 3
  /\ FallbackTaken(FitLngs) /\ FallbackTaken(FitLats)
  /\ FitLngs # FitLats
  /\ \E i \in 1..3 : FitLngs[i] # 0
  /\ \E i \in 1..3 : FitLats[i] # 0
  /\ \E i, j \in 1..3 : FitPx[i] # FitPx[j]
  /\ ZeroRow(fitOut.A, fitOut.B, fitOut.C)
  /\ ZeroRow(fitOut.D, fitOut.E, fitOut.F)

====
